---- MODULE Spec2Model ----
(***************************************************************************)
(* Model of three React components of the dashboard:                       *)
(*   - ContributionsTable (filter / sort / paginate over an in-memory      *)
(*     list, debounced text query),                                        *)
(*   - BuscarDeudaButton (the per-row "search" progress button),           *)
(*   - EditProductDrawer (guarded update / delete of one product).         *)
(*                                                                         *)
(* One action is one event delivered to the UI event loop (a user event,   *)
(* a timer firing, a promise settling), together with the render and the   *)
(* effects React runs for it before the next event is delivered.           *)
(* Strings are sequences of one-character strings, so that toLowerCase,    *)
(* trim, includes and the ordering of lodash's sortBy are computed.        *)
(***************************************************************************)
EXTENDS Integers, Sequences, FiniteSets, TLC

VARIABLES
    \* ContributionsTable
    data,              \* props.data
    page,              \* useState(1)
    pageSize,          \* useState(PAGE_SIZES[0])
    records,           \* useState(data.slice(0, pageSize)), set by the recompute effect
    sortStatus,        \* useState({columnAccessor: 'name', direction: 'asc'})
    query,             \* useState('')
    debouncedQuery,    \* useDebouncedValue(query, 200)[0]
    debounceTimer,     \* TRUE while the 200 ms timeout of useDebouncedValue is pending
    selectedStatuses,  \* useState([])
    \* BuscarDeudaButton, one instance per rendered row (keyed by record id)
    btn,
    \* EditProductDrawer
    user,              \* useAuth().user
    permissions,       \* useAuth().permissions
    product,           \* props.product
    opened,            \* drawerProps.opened
    hasOnClose,        \* drawerProps.onClose is supplied
    hasOnUpdated,      \* props.onProductUpdated is supplied
    isCreator,         \* useState(false)
    categories,        \* useState([]): the values of the options of the Select
    categoriesLoading, \* useState(false)
    categoryFetches,   \* category requests awaiting their response
    loading,           \* useState(false)
    form,              \* form.values
    inflight,          \* update / delete requests awaiting their response, per method
    effects            \* what the drawer event handled last sent, showed and called

tableVars == <<data, page, pageSize, records, sortStatus, query, debouncedQuery,
               debounceTimer, selectedStatuses>>
rowVars == <<btn>>
categoryVars == <<categories, categoriesLoading, categoryFetches>>
drawerVars == <<user, permissions, product, opened, hasOnClose, hasOnUpdated,
                isCreator, loading, form, inflight, effects, categoryVars>>
vars == <<tableVars, rowVars, drawerVars>>

(***************************************************************************)
(* Bounds of the model.                                                    *)
(***************************************************************************)
MaxRecords == 6
MaxInFlight == 2
MaxActiveRows == 1
MaxCategoryFetches == 2
MaxPageIndex == 3

(***************************************************************************)
(* JavaScript strings and arrays.                                          *)
(***************************************************************************)
Min(a, b) == IF a <= b THEN a ELSE b
Max(a, b) == IF a >= b THEN a ELSE b

\* UTF-16 code units of the characters used
CharCode(c) ==
    CASE c = " " -> 32
      [] c = "A" -> 65
      [] c = "B" -> 66
      [] c = "a" -> 97
      [] c = "b" -> 98
      [] c = "l" -> 108

\* String.prototype.toLowerCase
LowerChar(c) ==
    CASE c = "A" -> "a"
      [] c = "B" -> "b"
      [] OTHER -> c
ToLowerCase(s) == [i \in 1..Len(s) |-> LowerChar(s[i])]

\* String.prototype.trim
RECURSIVE TrimStart(_)
TrimStart(s) == IF s # <<>> /\ Head(s) = " " THEN TrimStart(Tail(s)) ELSE s
RECURSIVE TrimEnd(_)
TrimEnd(s) ==
    IF s # <<>> /\ s[Len(s)] = " " THEN TrimEnd(SubSeq(s, 1, Len(s) - 1)) ELSE s
Trim(s) == TrimEnd(TrimStart(s))

\* String.prototype.includes
Includes(s, needle) ==
    \E i \in 0..(Len(s) - Len(needle)) : SubSeq(s, i + 1, i + Len(needle)) = needle

\* a < b on strings: by code units from the left, a proper prefix first
RECURSIVE StrLess(_, _)
StrLess(a, b) ==
    IF b = <<>> THEN FALSE
    ELSE IF a = <<>> THEN TRUE
    ELSE IF Head(a) = Head(b) THEN StrLess(Tail(a), Tail(b))
    ELSE CharCode(Head(a)) < CharCode(Head(b))

\* Array.prototype.slice(from, to), negative indices counted from the end
Slice(arr, from, to) ==
    LET len == Len(arr)
        start == IF from < 0 THEN Max(len + from, 0) ELSE Min(from, len)
        end == IF to < 0 THEN Max(len + to, 0) ELSE Min(to, len)
    IN  IF start < end THEN SubSeq(arr, start + 1, end) ELSE <<>>

\* Array.prototype.reverse
Reverse(arr) == [i \in 1..Len(arr) |-> arr[Len(arr) + 1 - i]]

Range(f) == {f[i] : i \in DOMAIN f}

(***************************************************************************)
(* lodash sortBy(collection, accessor): each element is paired with its    *)
(* criterion and its index, the pairs are sorted with compareMultiple      *)
(* (criterion ascending, then index), and the values are taken back.       *)
(***************************************************************************)
IsName(col) == col = "name"

\* compareAscending(value, other) < 0
CriterionLess(col, x, y) == IF IsName(col) THEN StrLess(x, y) ELSE x < y

\* compareMultiple(object, other) < 0: equal criteria are ordered by index
CompareMultipleLess(col, a, b) ==
    IF a.criterion = b.criterion THEN a.index < b.index
    ELSE CriterionLess(col, a.criterion, b.criterion)

RECURSIVE InsertSorted(_, _, _)
InsertSorted(col, x, sorted) ==
    IF sorted = <<>> THEN <<x>>
    ELSE IF CompareMultipleLess(col, x, Head(sorted)) THEN <<x>> \o sorted
    ELSE <<Head(sorted)>> \o InsertSorted(col, x, Tail(sorted))

RECURSIVE BaseSortBy(_, _)
BaseSortBy(col, pairs) ==
    IF pairs = <<>> THEN <<>>
    ELSE CHOOSE sorted \in { InsertSorted(col, Head(pairs), rest) :
                                 rest \in {BaseSortBy(col, Tail(pairs))} } : TRUE

SortBy(arr, col) ==
    LET Pairs(a) == [i \in 1..Len(a) |->
                        [criterion |-> a[i][col], index |-> i, value |-> a[i]]]
        Values(sorted) == [i \in 1..Len(sorted) |-> sorted[i].value]
    IN  CHOOSE result \in
            { Values(sorted) :
                sorted \in { BaseSortBy(col, pairs) :
                    pairs \in { Pairs(a) : a \in {arr} } } } : TRUE

(***************************************************************************)
(* ContributionsTable                                                      *)
(***************************************************************************)
PAGE_SIZES == <<5, 10, 20>>

SortableColumns == {"name", "propertiesCount"}
Directions == {"asc", "desc"}

\* the texts the user types or pastes into the name filter
Queries == { <<>>, <<" ">>, <<" ", "A">>, <<"l", "a", " ">> }

NamePool == << <<"A", "l">>, <<"b", "a">>, <<"a", "l">>, <<"B">>, <<"a", "b">>,
               <<"A", "l", "a">>, <<"b">> >>
StatusPool == <<"pending", "paid", "searched">>

\* the k-th generated record set with n records; names, counts and statuses repeat
Contribution(i, k) ==
    [ id |-> i,
      name |-> NamePool[((i * k) % Len(NamePool)) + 1],
      propertiesCount |-> (i * (k + 1)) % 3,
      status |-> StatusPool[((i + k) % Len(StatusPool)) + 1] ]
GenData(n, k) == [i \in 1..n |-> Contribution(i, k)]

\* the record sets the data source delivers: empty while loading, then a list
DataSets == { <<>>, GenData(MaxRecords, 1), GenData(2 * MaxRecords - 1, 2) }

\* useMemo at the top of the component: the statuses present in data
Statuses(d) == { d[i].status : i \in DOMAIN d }

\* the callback of data.filter
\* faulty variant of KeepRecord: the status filter is not applied
KeepRecordIgnoringStatus(r, dq, sel) ==
    ~(dq # <<>> /\ ~Includes(ToLowerCase(r.name), ToLowerCase(Trim(dq))))

KeepRecord(r, dq, sel) ==
    /\ ~(dq # <<>> /\ ~Includes(ToLowerCase(r.name), ToLowerCase(Trim(dq))))
    /\ ~(sel # {} /\ ~(\E s \in sel : s = r.status))

\* faulty variant of Paginated: the page is cut from the filtered records
\* before they are sorted
PaginatedSliceThenSort(d, p, size, sort, dq, sel) ==
    LET from == (p - 1) * size
        to == from + size
        Keep(r) == KeepRecord(r, dq, sel)
        filtered == IF dq # <<>> \/ sel # {} THEN SelectSeq(d, Keep) ELSE d
        asc == SortBy(Slice(filtered, from, to), sort.columnAccessor)
    IN  IF sort.direction = "desc" THEN Reverse(asc) ELSE asc

\* `filtered` of the recompute effect
Filtered(d, dq, sel) ==
    LET Keep(r) == KeepRecord(r, dq, sel)
    IN  IF dq # <<>> \/ sel # {} THEN SelectSeq(d, Keep) ELSE d

\* faulty variant of Sorted: a stable descending sort, which keeps records
\* with equal keys in their original order
SortedStableDescending(filtered, sort) ==
    IF sort.direction = "desc"
    THEN Reverse(SortBy(Reverse(filtered), sort.columnAccessor))
    ELSE SortBy(filtered, sort.columnAccessor)

\* `sorted` of the recompute effect
Sorted(filtered, sort) ==
    IF sort.direction = "desc"
    THEN Reverse(SortBy(filtered, sort.columnAccessor))
    ELSE SortBy(filtered, sort.columnAccessor)

\* the body of the recompute effect: what it passes to setRecords; each
\* statement's value is computed once and bound to its name
Paginated(d, p, size, sort, dq, sel) ==
    LET from == (p - 1) * size
        to == from + size
    IN  CHOOSE paginated \in
            { Slice(sorted, from, to) :
                sorted \in { Sorted(filtered, sort) :
                    filtered \in {Filtered(d, dq, sel)} } } : TRUE

\* the totalRecords prop handed to DataTable
TotalRecords(d, recs, dq, sel) ==
    IF dq # <<>> \/ sel # {} THEN Len(recs) ELSE Len(d)

\* the pages the pagination control of DataTable offers
PageCount(total, size) == (total + size - 1) \div size


(***************************************************************************)
(* BuscarDeudaButton: one instance per row DataTable renders, keyed by the *)
(* record id; a row that leaves `records` is unmounted and its state is    *)
(* discarded, a row that enters it is mounted with the initial state.      *)
(***************************************************************************)
PROGRESS_STEP == 2
PROGRESS_END == 100

RowIds == 1..(2 * MaxRecords - 1)

\* `interval` is the timer of setInterval while it is scheduled; `cleared`
\* records that the cleanup run at unmount called clearInterval on a
\* scheduled timer
Unmounted == [mounted |-> FALSE, progress |-> 0, running |-> FALSE, done |-> FALSE,
              interval |-> FALSE, cleared |-> FALSE]

\* the useState / useRef initial values; the mount effect sees running = false
MountButton == [mounted |-> TRUE, progress |-> 0, running |-> FALSE, done |-> FALSE,
                interval |-> FALSE, cleared |-> FALSE]

\* the disabled prop of the button
ButtonDisabled(b) == b.running \/ b.done

\* handleClick, then the effect of the render with running = true
ClickedButton(b) ==
    [b EXCEPT !.progress = 0, !.done = FALSE, !.running = TRUE, !.interval = TRUE]

\* the interval callback: the updater passed to setProgress, then the cleanup
\* of the effect when running turned false
TickedButton(b) ==
    IF b.progress >= PROGRESS_END
    THEN [b EXCEPT !.interval = FALSE, !.running = FALSE, !.done = TRUE,
                   !.progress = PROGRESS_END]
    ELSE [b EXCEPT !.progress = b.progress + PROGRESS_STEP]

RecordIds(recs) == { recs[i].id : i \in DOMAIN recs }

\* faulty variant of UnmountButton: the effect has no cleanup, the timer of a
\* row that leaves the page stays scheduled
UnmountButtonWithoutCleanup(b) ==
    IF b.mounted THEN [Unmounted EXCEPT !.interval = b.interval] ELSE b

\* the state of a button that leaves the page: the cleanup of its effect
\* runs, the component state is discarded
UnmountButton(b) ==
    IF b.mounted THEN [Unmounted EXCEPT !.cleared = b.interval] ELSE b

\* the rows DataTable mounts and unmounts when `records` becomes recs
Reconcile(b, recs) ==
    LET ids == RecordIds(recs)
    IN  [id \in RowIds |->
            IF id \in ids
            THEN (IF b[id].mounted THEN b[id] ELSE MountButton)
            ELSE UnmountButton(b[id])]

ActiveRows == { id \in RowIds : btn[id].mounted /\ (btn[id].running \/ btn[id].done) }

HandleClick(id) ==
    /\ btn[id].mounted
    /\ ~ButtonDisabled(btn[id])
    /\ Cardinality(ActiveRows) < MaxActiveRows
    /\ btn' = [btn EXCEPT ![id] = ClickedButton(btn[id])]
    /\ UNCHANGED <<tableVars, drawerVars>>

\* the callback of a scheduled interval
IntervalTick(id) ==
    /\ btn[id].interval
    /\ btn' = [btn EXCEPT ![id] = TickedButton(btn[id])]
    /\ UNCHANGED <<tableVars, drawerVars>>

(***************************************************************************)
(* ContributionsTable: the event handlers.  After each state change the    *)
(* component renders and the effects whose dependencies changed run; the   *)
(* recompute effect ends in setRecords, DataTable then renders the rows.   *)
(***************************************************************************)
\* faulty variant of Recompute: the result is not written to records
RecomputeKeepingRecords(d, p, size, sort, dq, sel) ==
    /\ records' = records
    /\ btn' = Reconcile(btn, records)

\* the recompute effect for the state given, then the rows of the new page
Recompute(d, p, size, sort, dq, sel) ==
    \E paginated \in {Paginated(d, p, size, sort, dq, sel)} :
        /\ records' = paginated
        /\ btn' = Reconcile(btn, paginated)

CurrentTotal == TotalRecords(data, records, debouncedQuery, selectedStatuses)

\* faulty variant of DebouncedOnChange: the value typed is applied at once
DebouncedOnChangeImmediate(q, dq) == q

\* what useDebouncedValue returns in the render that follows a keystroke: the
\* value it held, until its timeout fires
DebouncedOnChange(q, dq) == dq

\* onChange of the name filter: setQuery; useDebouncedValue restarts its timeout
SetQuery(q) ==
    /\ q # query
    /\ query' = q
    /\ debounceTimer' = TRUE
    /\ debouncedQuery' = DebouncedOnChange(q, debouncedQuery)
    /\ UNCHANGED <<data, page, pageSize, records, sortStatus, selectedStatuses,
                   rowVars, drawerVars>>

\* the timeout of useDebouncedValue fires: setValue(query)
DebounceFire ==
    /\ debounceTimer
    /\ debounceTimer' = FALSE
    /\ debouncedQuery' = query
    /\ Recompute(data, page, pageSize, sortStatus, query, selectedStatuses)
    /\ UNCHANGED <<data, page, pageSize, sortStatus, query, selectedStatuses,
                   drawerVars>>

\* onChange of the status MultiSelect: an option is picked or a value removed
ToggleStatus(s) ==
    /\ s \in selectedStatuses \/ s \in Statuses(data)
    /\ selectedStatuses' = IF s \in selectedStatuses THEN selectedStatuses \ {s}
                           ELSE selectedStatuses \cup {s}
    /\ Recompute(data, page, pageSize, sortStatus, debouncedQuery, selectedStatuses')
    /\ UNCHANGED <<data, page, pageSize, sortStatus, query, debouncedQuery,
                   debounceTimer, drawerVars>>

\* onSortStatusChange
SetSortStatus(col, dir) ==
    /\ sortStatus # [columnAccessor |-> col, direction |-> dir]
    /\ sortStatus' = [columnAccessor |-> col, direction |-> dir]
    /\ Recompute(data, page, pageSize, sortStatus', debouncedQuery, selectedStatuses)
    /\ UNCHANGED <<data, page, pageSize, query, debouncedQuery, debounceTimer,
                   selectedStatuses, drawerVars>>

\* onPageChange, for a page the pagination control offers
SetPage(p) ==
    /\ p \in 1..PageCount(CurrentTotal, pageSize)
    /\ p # page
    /\ page' = p
    /\ Recompute(data, p, pageSize, sortStatus, debouncedQuery, selectedStatuses)
    /\ UNCHANGED <<data, pageSize, sortStatus, query, debouncedQuery, debounceTimer,
                   selectedStatuses, drawerVars>>

\* faulty variant of PageAfterPageSizeChange: the page index is kept
PageAfterPageSizeChangeKeeping(p) == p

\* the page after the effect of [pageSize] has run
PageAfterPageSizeChange(p) == 1

\* onRecordsPerPageChange: the render with the new size runs both effects with
\* the page of that render (setPage(1), and a recompute), and if the page
\* changed the next render runs the recompute effect again
SetPageSize(size) ==
    /\ size # pageSize
    /\ pageSize' = size
    /\ page' = PageAfterPageSizeChange(page)
    /\ \E first \in {Paginated(data, page, size, sortStatus, debouncedQuery,
                                selectedStatuses)} :
       \E second \in {IF page' # page
                      THEN Paginated(data, page', size, sortStatus, debouncedQuery,
                                     selectedStatuses)
                      ELSE first} :
       \E rows \in {Reconcile(btn, first)} :
           /\ records' = second
           /\ btn' = Reconcile(rows, second)
    /\ UNCHANGED <<data, sortStatus, query, debouncedQuery, debounceTimer,
                   selectedStatuses, drawerVars>>

\* the data source delivers another record set
DataChange(d) ==
    /\ d # data
    /\ data' = d
    /\ Recompute(d, page, pageSize, sortStatus, debouncedQuery, selectedStatuses)
    /\ UNCHANGED <<page, pageSize, sortStatus, query, debouncedQuery, debounceTimer,
                   selectedStatuses, drawerVars>>


(***************************************************************************)
(* EditProductDrawer.  JavaScript values carry their type, so that         *)
(* `x || default` and isNotEmpty are computed on what the form holds.      *)
(***************************************************************************)
Str(s) == [t |-> "string", v |-> s]
Num(n) == [t |-> "number", v |-> n]
Bool(b) == [t |-> "boolean", v |-> b]
Undefined == [t |-> "undefined", v |-> 0]
Null == [t |-> "null", v |-> 0]

Truthy(x) ==
    CASE x.t = "string" -> x.v # <<>>
      [] x.t = "number" -> x.v # 0
      [] x.t = "boolean" -> x.v
      [] OTHER -> FALSE

\* x || d
OrElse(x, d) == IF Truthy(x) THEN x ELSE d

\* the users that sign in; useAuth().user is null when nobody is signed in
UserIds == {"u1", "u2"}
NoUser == "null"
Users == UserIds \cup {NoUser}
\* user?.id
UserId(u) == IF u = NoUser THEN "undefined" ELSE u

EditPermission == "Permissions.Products.Edit"
\* useAuth().permissions: null, or a list of permission names
PermissionValues ==
    { [isNull |-> TRUE, list |-> {}],
      [isNull |-> FALSE, list |-> {"Permissions.Products.View"}],
      [isNull |-> FALSE, list |-> {"Permissions.Products.View", EditPermission}] }

\* permissions?.includes('Permissions.Products.Edit')
CanEditProduct(perms) == ~perms.isNull /\ EditPermission \in perms.list

\* the products of the list page; product = 0 is the null prop
Products ==
    << [ id |-> 1, createdById |-> "u1", title |-> Str(<<"T">>),
         description |-> Str(<<"D">>), price |-> Num(5), quantityInStock |-> Num(3),
         sku |-> Str(<<"S">>), isActive |-> Bool(TRUE), status |-> Num(2),
         categoryId |-> Str(<<"c">>) ],
       [ id |-> 2, createdById |-> "u1", title |-> Str(<<"U">>),
         description |-> Undefined, price |-> Num(0), quantityInStock |-> Undefined,
         sku |-> Undefined, isActive |-> Bool(FALSE), status |-> Undefined,
         categoryId |-> Null ] >>
ProductRefs == 0..Len(Products)

\* useForm's initialValues
InitialValues ==
    [ title |-> Str(<<>>), description |-> Str(<<>>), price |-> Num(0),
      quantityInStock |-> Num(0), sku |-> Str(<<>>), isActive |-> Bool(TRUE),
      status |-> Num(1), categoryId |-> Str(<<>>) ]

\* the argument of form.setValues in the effect of [product, user]
ProductValues(p) ==
    [ title |-> OrElse(p.title, Str(<<>>)),
      description |-> OrElse(p.description, Str(<<>>)),
      price |-> OrElse(p.price, Num(0)),
      quantityInStock |-> OrElse(p.quantityInStock, Num(0)),
      sku |-> OrElse(p.sku, Str(<<>>)),
      isActive |-> OrElse(p.isActive, Bool(FALSE)),
      status |-> OrElse(p.status, Num(1)),
      categoryId |-> OrElse(p.categoryId, Str(<<>>)) ]

\* isNotEmpty(message)(value) = null: the value passes
IsNotEmpty(x) ==
    CASE x.t = "string" -> Len(Trim(x.v)) > 0
      [] x.t = "null" -> FALSE
      [] x.t = "undefined" -> FALSE
      [] x.t = "boolean" -> x.v
      [] OTHER -> TRUE

\* the fields of the validate object of useForm
ValidatedFields == {"title", "description", "price", "quantityInStock", "categoryId"}
\* faulty variant of HasErrors: only the title is validated
HasErrorsOfTitleOnly(values) == ~IsNotEmpty(values["title"])

\* form.validate().hasErrors
HasErrors(values) == \E f \in ValidatedFields : ~IsNotEmpty(values[f])

\* what the user enters into a field: cleared inputs and new values
FieldInputs ==
    [ title |-> {Str(<<>>), Str(<<" ">>), Str(<<"N">>)},
      description |-> {Str(<<>>), Str(<<"D">>)},
      price |-> {Str(<<>>)},
      quantityInStock |-> {Str(<<>>)},
      categoryId |-> {Null, Str(<<"c">>)} ]

Methods == {"PUT", "DELETE"}

\* the option lists the categories endpoint delivers in result.data
CategoryLists == { <<>>, << <<"c">> >> }

\* the responses of the categories endpoint: fetch rejects, or resolves with a
\* body that does not parse, or with a result object
CategoryResponses ==
    { [settled |-> "rejected", succeeded |-> FALSE, hasData |-> FALSE, data |-> <<>>],
      [settled |-> "not_json", succeeded |-> FALSE, hasData |-> FALSE, data |-> <<>>] }
    \cup { [settled |-> "resolved", succeeded |-> ok, hasData |-> FALSE, data |-> <<>>] :
             ok \in BOOLEAN }
    \cup { [settled |-> "resolved", succeeded |-> ok, hasData |-> TRUE, data |-> list] :
             ok \in BOOLEAN, list \in CategoryLists }

\* fetchCategories from `await fetch` on: the categories state afterwards
CategoriesSettled(resp, current) ==
    IF resp.settled = "resolved" /\ resp.succeeded /\ resp.hasData
    THEN resp.data
    ELSE current

\* the responses of the update and delete endpoints: fetch rejects (transport
\* error), or resolves with a status and a body that parses as JSON or not
Responses ==
    { [settled |-> "rejected", ok |-> FALSE, body |-> "not_json"] }
    \cup [ settled : {"resolved"}, ok : BOOLEAN,
           body : {"json_with_error", "json_without_error", "not_json"} ]

\* the message of the error notification: data.error || the generic message
ErrorMessage(resp) ==
    IF resp.body = "json_with_error" THEN "notify:red:server" ELSE "notify:red:generic"

\* onClose and onProductUpdated, each called if the caller supplied it
SuccessCallbacks(withClose, withUpdated) ==
    (IF withClose THEN <<"onClose">> ELSE <<>>)
    \o (IF withUpdated THEN <<"onProductUpdated">> ELSE <<>>)

\* faulty variant of SubmitSettled: the editor is closed whatever the outcome
SubmitSettledClosingAlways(resp, withClose, withUpdated) ==
    IF resp.settled = "rejected" \/ resp.body = "not_json" \/ ~resp.ok
    THEN <<"notify:red:exception">> \o SuccessCallbacks(withClose, FALSE)
    ELSE <<"notify:green">> \o SuccessCallbacks(withClose, withUpdated)

\* handleSubmit from `await fetch` on: what it shows and calls, in order
SubmitSettled(resp, withClose, withUpdated) ==
    IF resp.settled = "rejected" THEN <<"notify:red:exception">>
    ELSE IF resp.body = "not_json" THEN <<"notify:red:exception">>
    ELSE IF ~resp.ok THEN <<ErrorMessage(resp)>>
    ELSE <<"notify:green">> \o SuccessCallbacks(withClose, withUpdated)

\* handleDelete from `await fetch` on: what it shows and calls, in order
DeleteSettled(resp, withClose, withUpdated) ==
    IF resp.settled = "rejected" THEN <<"notify:red:exception">>
    ELSE IF ~resp.ok
         THEN (IF resp.body = "not_json" THEN <<"notify:red:exception">>
               ELSE <<ErrorMessage(resp)>>)
    ELSE <<"notify:green">> \o SuccessCallbacks(withClose, withUpdated)

\* faulty variant of SubmitAllowed: the edit permission is not looked at
SubmitAllowedWithoutPermission(p, creator, canEdit) == p # 0 /\ creator

\* faulty variant of DeleteConfirmed: the answer is not looked at
DeleteConfirmedAlways(answer) == TRUE

\* the early return of handleSubmit
SubmitAllowed(p, creator, canEdit) == p # 0 /\ creator /\ canEdit
\* the early return of handleDelete
DeleteAllowed(p, creator) == p # 0 /\ creator
\* the answer of window.confirm decides whether handleDelete goes on
DeleteConfirmed(answer) == answer

\* the disabled prop of the inputs and of both buttons
ControlsDisabled == ~isCreator
SubmitDisabled == ControlsDisabled
DeleteDisabled == ControlsDisabled
\* the disabled prop of the category Select
CategoryDisabled == categoriesLoading \/ ~isCreator
\* the disabled prop of the input of field f
FieldDisabled(f) == IF f = "categoryId" THEN CategoryDisabled ELSE ControlsDisabled
\* what the Select offers: one of its options, or null by clicking the
\* selected option again
CategoryChoice(x) ==
    \/ x = Null /\ \E i \in DOMAIN categories : form.categoryId = Str(categories[i])
    \/ \E i \in DOMAIN categories : x = Str(categories[i])

InFlightCount == inflight["PUT"] + inflight["DELETE"]

\* the effect of [product, user], run when either changed
LoadProduct(p, u) ==
    IF p # 0
    THEN /\ form' = ProductValues(Products[p])
         /\ isCreator' = (UserId(u) = Products[p].createdById)
    ELSE UNCHANGED <<form, isCreator>>

\* the Edit button of a ProductsCard, enabled for the creator: the page passes
\* the product to the drawer and opens it
OnEdit(p) ==
    /\ p \in 1..Len(Products)
    /\ UserId(user) = Products[p].createdById
    /\ ~opened
    /\ categoryFetches < MaxCategoryFetches
    /\ product' = p
    /\ opened' = TRUE
    /\ IF p # product THEN LoadProduct(p, user) ELSE UNCHANGED <<form, isCreator>>
    \* the effect of [drawerProps.opened]: fetchCategories up to its first await
    /\ categoriesLoading' = TRUE
    /\ categoryFetches' = categoryFetches + 1
    /\ effects' = <<>>
    /\ UNCHANGED <<user, permissions, hasOnClose, hasOnUpdated, loading, inflight,
                   categories, tableVars, rowVars>>

\* the drawer is closed by the user; the page may drop the product it passed
CloseDrawer(clear) ==
    /\ opened
    /\ opened' = FALSE
    /\ product' = IF clear THEN 0 ELSE product
    /\ effects' = <<>>
    /\ UNCHANGED <<user, permissions, hasOnClose, hasOnUpdated, isCreator, loading,
                   form, inflight, tableVars, rowVars, categoryVars>>

\* useAuth delivers another session
AuthChange(u, perms) ==
    /\ <<u, perms>> # <<user, permissions>>
    /\ user' = u
    /\ permissions' = perms
    /\ IF u # user THEN LoadProduct(product, u) ELSE UNCHANGED <<form, isCreator>>
    /\ effects' = <<>>
    /\ UNCHANGED <<product, opened, hasOnClose, hasOnUpdated, loading, inflight,
                   tableVars, rowVars, categoryVars>>

\* the user edits an input of the form
SetFieldValue(f, x) ==
    /\ opened
    /\ ~FieldDisabled(f)
    /\ f = "categoryId" => CategoryChoice(x)
    /\ form[f] # x
    /\ form' = [form EXCEPT ![f] = x]
    /\ effects' = <<>>
    /\ UNCHANGED <<user, permissions, product, opened, hasOnClose, hasOnUpdated,
                   isCreator, loading, inflight, tableVars, rowVars, categoryVars>>

\* the form is submitted: form.onSubmit validates, then calls handleSubmit,
\* which runs up to its first await
Submit ==
    /\ opened
    /\ ~SubmitDisabled
    /\ InFlightCount < MaxInFlight
    /\ IF ~HasErrors(form) /\ SubmitAllowed(product, isCreator, CanEditProduct(permissions))
       THEN /\ loading' = TRUE
            /\ inflight' = [inflight EXCEPT !["PUT"] = @ + 1]
            /\ effects' = <<"fetch:PUT">>
       ELSE /\ effects' = <<>>
            /\ UNCHANGED <<loading, inflight>>
    /\ UNCHANGED <<user, permissions, product, opened, hasOnClose, hasOnUpdated,
                   isCreator, form, tableVars, rowVars, categoryVars>>

\* the Delete button is clicked: handleDelete up to its first await
Delete(answer) ==
    /\ opened
    /\ ~DeleteDisabled
    /\ InFlightCount < MaxInFlight
    /\ IF DeleteAllowed(product, isCreator) /\ DeleteConfirmed(answer)
       THEN /\ loading' = TRUE
            /\ inflight' = [inflight EXCEPT !["DELETE"] = @ + 1]
            /\ effects' = <<"fetch:DELETE">>
       ELSE /\ effects' = <<>>
            /\ UNCHANGED <<loading, inflight>>
    /\ UNCHANGED <<user, permissions, product, opened, hasOnClose, hasOnUpdated,
                   isCreator, form, tableVars, rowVars, categoryVars>>

\* the caller's onClose closes the drawer
OpenedAfter(called) ==
    IF \E i \in DOMAIN called : called[i] = "onClose" THEN FALSE ELSE opened

\* the response of a PUT arrives: handleSubmit runs to its end
PutResponse(resp) ==
    /\ inflight["PUT"] > 0
    /\ inflight' = [inflight EXCEPT !["PUT"] = @ - 1]
    /\ effects' = SubmitSettled(resp, hasOnClose, hasOnUpdated)
    /\ opened' = OpenedAfter(effects')
    /\ loading' = FALSE
    /\ UNCHANGED <<user, permissions, product, hasOnClose, hasOnUpdated, isCreator,
                   form, tableVars, rowVars, categoryVars>>

\* the response of a DELETE arrives: handleDelete runs to its end
DeleteResponse(resp) ==
    /\ inflight["DELETE"] > 0
    /\ inflight' = [inflight EXCEPT !["DELETE"] = @ - 1]
    /\ effects' = DeleteSettled(resp, hasOnClose, hasOnUpdated)
    /\ opened' = OpenedAfter(effects')
    /\ loading' = FALSE
    /\ UNCHANGED <<user, permissions, product, hasOnClose, hasOnUpdated, isCreator,
                   form, tableVars, rowVars, categoryVars>>

\* the response of a category request arrives: fetchCategories runs to its end
CategoriesResponse(resp) ==
    /\ categoryFetches > 0
    /\ categoryFetches' = categoryFetches - 1
    /\ categories' = CategoriesSettled(resp, categories)
    /\ categoriesLoading' = FALSE
    /\ effects' = <<>>
    /\ UNCHANGED <<user, permissions, product, opened, hasOnClose, hasOnUpdated,
                   isCreator, loading, form, inflight, tableVars, rowVars>>

(***************************************************************************)
(* Initial states and specifications.                                      *)
(***************************************************************************)
InitTableWith(d) ==
    /\ data = d
    /\ page = 1
    /\ pageSize = PAGE_SIZES[1]
    /\ sortStatus = [columnAccessor |-> "name", direction |-> "asc"]
    /\ query = <<>>
    /\ debouncedQuery = <<>>
    /\ debounceTimer = FALSE
    /\ selectedStatuses = {}
    \* the mount effects have run: setPage(1), and the recompute
    /\ records = Paginated(d, 1, PAGE_SIZES[1],
                           [columnAccessor |-> "name", direction |-> "asc"], <<>>, {})
    /\ btn = Reconcile([id \in RowIds |-> Unmounted], records)

InitDrawerWith(u, perms, withClose, withUpdated) ==
    /\ user = u
    /\ permissions = perms
    /\ product = 0
    /\ opened = FALSE
    /\ hasOnClose = withClose
    /\ hasOnUpdated = withUpdated
    /\ isCreator = FALSE
    /\ loading = FALSE
    /\ form = InitialValues
    /\ inflight = [m \in Methods |-> 0]
    /\ effects = <<>>
    /\ categories = <<>>
    /\ categoriesLoading = FALSE
    /\ categoryFetches = 0

InitTable == \E d \in DataSets : InitTableWith(d)
\* DrawerProps requires onClose; onProductUpdated is optional
InitDrawer ==
    \E u \in Users, perms \in PermissionValues, r \in BOOLEAN :
        InitDrawerWith(u, perms, TRUE, r)
\* the components as constructed but left alone
IdleTable == InitTableWith(<<>>)
IdleDrawer == InitDrawerWith(NoUser, [isNull |-> TRUE, list |-> {}], TRUE, TRUE)

Init == InitTable /\ InitDrawer

TableNext ==
    \/ \E q \in Queries : SetQuery(q)
    \/ DebounceFire
    \/ \E s \in Range(StatusPool) : ToggleStatus(s)
    \/ \E col \in SortableColumns, dir \in Directions : SetSortStatus(col, dir)
    \/ \E p \in RowIds : SetPage(p)
    \/ \E i \in DOMAIN PAGE_SIZES : SetPageSize(PAGE_SIZES[i])
    \/ \E d \in DataSets : DataChange(d)

RowNext ==
    \/ \E id \in RowIds : HandleClick(id)
    \/ \E id \in RowIds : IntervalTick(id)

\* the fields edited where the whole drawer is explored; all the fields are
\* edited under SpecForm
DrawerFields == {"title"}

DrawerNext ==
    \/ \E p \in ProductRefs : OnEdit(p)
    \/ \E clear \in BOOLEAN : CloseDrawer(clear)
    \/ \E u \in Users, perms \in PermissionValues : AuthChange(u, perms)
    \/ \E f \in DrawerFields : \E x \in FieldInputs[f] : SetFieldValue(f, x)
    \/ Submit
    \/ \E answer \in BOOLEAN : Delete(answer)
    \/ \E resp \in Responses : PutResponse(resp)
    \/ \E resp \in Responses : DeleteResponse(resp)
    \/ \E resp \in CategoryResponses : CategoriesResponse(resp)

Next == TableNext \/ RowNext \/ DrawerNext

Spec == Init /\ [][Next]_vars

\* the table alone: the drawer stays as constructed
InitSpecTable == InitTable /\ IdleDrawer
SpecTable == InitSpecTable /\ [][TableNext]_vars

\* the drawer alone: the table stays as constructed
InitSpecDrawer == IdleTable /\ InitDrawer
SpecDrawer == InitSpecDrawer /\ [][DrawerNext]_vars

\* the form of the drawer, used by the creator who holds the edit permission:
\* every validated field is edited, and the form is submitted
FormNext ==
    \/ \E p \in ProductRefs : OnEdit(p)
    \/ \E f \in DOMAIN FieldInputs : \E x \in FieldInputs[f] : SetFieldValue(f, x)
    \/ Submit
    \/ \E resp \in Responses : PutResponse(resp)
    \/ \E resp \in CategoryResponses : CategoriesResponse(resp)

InitSpecForm ==
    /\ IdleTable
    /\ InitDrawerWith("u1", [isNull |-> FALSE, list |-> {EditPermission}], TRUE, TRUE)
SpecForm == InitSpecForm /\ [][FormNext]_vars

\* the rows of one record set: the buttons, and the table controls that change
\* which rows are rendered
RowTableNext ==
    \/ \E p \in RowIds : SetPage(p)
    \/ \E i \in DOMAIN PAGE_SIZES : SetPageSize(PAGE_SIZES[i])

InitSpecRow == InitTableWith(GenData(MaxRecords, 1)) /\ IdleDrawer
SpecRow == InitSpecRow /\ [][RowNext \/ RowTableNext]_vars

\* the recompute effect as a function of the state it reads: the component as
\* constructed, with any page index in `page`, also those the pagination
\* control does not offer; then the effect runs
PageIndexes == (0 - MaxPageIndex)..MaxPageIndex

InitPaginate ==
    /\ IdleDrawer
    /\ data \in DataSets
    /\ page \in PageIndexes
    /\ pageSize \in Range(PAGE_SIZES)
    /\ sortStatus \in [columnAccessor : SortableColumns, direction : Directions]
    /\ query = <<>>
    /\ debouncedQuery = <<>>
    /\ debounceTimer = FALSE
    /\ selectedStatuses \in { {}, {StatusPool[1]} }
    \* the initial value of useState
    /\ records = Slice(data, 0, pageSize)
    /\ btn = Reconcile([id \in RowIds |-> Unmounted], records)

PaginateStep ==
    /\ Recompute(data, page, pageSize, sortStatus, debouncedQuery, selectedStatuses)
    /\ UNCHANGED <<data, page, pageSize, sortStatus, query, debouncedQuery,
                   debounceTimer, selectedStatuses, drawerVars>>

SpecPaginate == InitPaginate /\ [][PaginateStep]_vars

\* the table with its debounce timer: a timeout that is not cleared fires.
\* The steps in which the pending timeout ends are the DebounceFire steps, and
\* DebounceFire is enabled exactly while the timeout is pending.
TimeoutFires == debounceTimer /\ debounceTimer' = FALSE
TableFairness == WF_debounceTimer(TimeoutFires)
SpecTableFair == SpecTable /\ TableFairness

\* the rows with their timers: setInterval keeps calling its callback until
\* the interval is cleared
RowFairness == \A id \in RowIds : WF_vars(IntervalTick(id))
SpecRowFair == SpecRow /\ RowFairness

(***************************************************************************)
(* What the claims speak of, stated apart from the definitions above: the  *)
(* filters, the sort order and the page as the specification words them.   *)
(***************************************************************************)
\* the query without its leading and trailing blanks
TrimmedQuery(q) ==
    LET inked == {i \in DOMAIN q : q[i] # " "}
    IN  IF inked = {} THEN <<>>
        ELSE SubSeq(q, CHOOSE i \in inked : \A j \in inked : i <= j,
                       CHOOSE i \in inked : \A j \in inked : i >= j)

\* name contains q, letters compared without regard to case
ContainsIgnoringCase(name, q) ==
    \E off \in 0..(Len(name) - Len(q)) :
        \A j \in 1..Len(q) : LowerChar(name[off + j]) = LowerChar(q[j])

TextFilterHolds(r, dq) ==
    dq = <<>> \/ ContainsIgnoringCase(r.name, TrimmedQuery(dq))
StatusFilterHolds(r, sel) ==
    sel = {} \/ r.status \in sel

\* the records of d that satisfy both filters, in their order
MatchingOf(d, dq, sel) ==
    LET Holds(r) == TextFilterHolds(r, dq) /\ StatusFilterHolds(r, sel)
    IN  SelectSeq(d, Holds)
MatchingRecords == MatchingOf(data, debouncedQuery, selectedStatuses)

\* x before y in the lexicographic order of code units
NameBefore(x, y) ==
    \E i \in 1..(Min(Len(x), Len(y)) + 1) :
        /\ \A j \in 1..(i - 1) : x[j] = y[j]
        /\ \/ i > Len(x) /\ i <= Len(y)
           \/ i <= Len(x) /\ i <= Len(y) /\ CharCode(x[i]) < CharCode(y[i])

KeyBefore(col, a, b) ==
    IF col = "name" THEN NameBefore(a.name, b.name)
    ELSE a.propertiesCount < b.propertiesCount
KeyEqual(col, a, b) == ~KeyBefore(col, a, b) /\ ~KeyBefore(col, b, a)

\* the place of m[i] in the stable ascending order of m
AscendingPlace(m, col, i) ==
    1 + Cardinality({ j \in DOMAIN m :
                        \/ KeyBefore(col, m[j], m[i])
                        \/ KeyEqual(col, m[j], m[i]) /\ j < i })

\* m in the order of sort: stable ascending, and its reverse for descending
SortedOf(m, sort) ==
    [k \in 1..Len(m) |->
        m[CHOOSE i \in DOMAIN m :
            AscendingPlace(m, sort.columnAccessor, i) =
                IF sort.direction = "desc" THEN Len(m) + 1 - k ELSE k]]

\* the slice [(p - 1) * size, p * size) of s
SliceOf(s, p, size) ==
    [k \in 1..Max(Min(p * size, Len(s)) - (p - 1) * size, 0) |-> s[(p - 1) * size + k]]

\* page p of the records of d that match, sorted
ExpectedPageOf(d, p, size, sort, dq, sel) ==
    CHOOSE pg \in { SliceOf(s, p, size) :
                    s \in { SortedOf(m, sort) : m \in {MatchingOf(d, dq, sel)} } } : TRUE
ExpectedPage ==
    ExpectedPageOf(data, page, pageSize, sortStatus, debouncedQuery, selectedStatuses)

(***************************************************************************)
(* Claims about ContributionsTable, under SpecTable.                       *)
(***************************************************************************)
\* C6: the visible page holds at most pageSize records, and each of them
\* satisfies the active text filter and the active status filter.
C6_PageWithinSizeAndFilters ==
    /\ Len(records) <= pageSize
    /\ \A i \in DOMAIN records :
           /\ TextFilterHolds(records[i], debouncedQuery)
           /\ StatusFilterHolds(records[i], selectedStatuses)

\* both filters are active, a query with a blank and a capital is applied,
\* and the page shows some but not all records
C6_Witness ==
    /\ debouncedQuery = <<" ", "A">>
    /\ selectedStatuses # {}
    /\ records # <<>>
    /\ Len(MatchingRecords) < Len(data)

\* C7: the visible page is exactly the slice [(page-1)*pageSize, page*pageSize)
\* of the records obtained by filtering all records and then sorting them.
C7_PageIsSliceOfSortedFiltered == records = ExpectedPage

\* a second page, sorted descending, of a filtered record set
C7_Witness ==
    /\ page = 2
    /\ sortStatus.direction = "desc"
    /\ debouncedQuery # <<>>
    /\ records # <<>>
    /\ Len(MatchingRecords) < Len(data)

\* C8: the total the table reports is the number of records of the full set
\* that satisfy the active filters, whatever the page and the page size.
C8_TotalIsMatchingCount ==
    TotalRecords(data, records, debouncedQuery, selectedStatuses) = Len(MatchingRecords)

\* C9: whenever pageSize changes, page is 1 afterwards and the page displayed
\* is the first page at the new size.
C9_PageSizeChangeResetsPage ==
    [][pageSize' # pageSize =>
          /\ page' = 1
          /\ records' = ExpectedPageOf(data', 1, pageSize', sortStatus',
                                       debouncedQuery', selectedStatuses')]_vars

\* a larger page size is in force and its first page shows more records than
\* the initial size holds
C9_Witness ==
    /\ pageSize = PAGE_SIZES[2]
    /\ page = 1
    /\ Len(records) > PAGE_SIZES[1]

\* the place of record r in m
PlaceIn(m, r) == CHOOSE i \in DOMAIN m : m[i] = r

\* s holds the records of m, each once, ordered by the key of col ascending
\* (or descending), records with equal keys in their order in m (or in the
\* reverse of it)
OrderedWithTies(s, m, col, descending) ==
    /\ Len(s) = Len(m)
    /\ \A i \in DOMAIN m : \E k \in DOMAIN s : s[k] = m[i]
    /\ \A i, j \in DOMAIN s :
           i < j => IF descending
                    THEN /\ ~KeyBefore(col, s[i], s[j])
                         /\ KeyEqual(col, s[i], s[j]) => PlaceIn(m, s[i]) > PlaceIn(m, s[j])
                    ELSE /\ ~KeyBefore(col, s[j], s[i])
                         /\ KeyEqual(col, s[i], s[j]) => PlaceIn(m, s[i]) < PlaceIn(m, s[j])

\* the ascending and the descending order of m are each other's reverse, with
\* the ties of the ascending one in the order of m, and pg is the page p of
\* the one that sort asks for
ReverseOfAscending(m, asc, desc, sort, pg, p, size) ==
    /\ Len(desc) = Len(asc)
    /\ \A i \in DOMAIN asc : desc[i] = asc[Len(asc) + 1 - i]
    /\ OrderedWithTies(asc, m, sort.columnAccessor, FALSE)
    /\ OrderedWithTies(desc, m, sort.columnAccessor, TRUE)
    /\ pg = SliceOf(IF sort.direction = "desc" THEN desc ELSE asc, p, size)

\* C18: for the filtered records of every state, the descending order the
\* program computes is the exact reverse of the ascending order it computes;
\* ascending is ordered by the sort key with equal keys in their original
\* relative order, descending has equal keys in the reverse of their original
\* relative order; the page shown is cut from the order of the sort direction.
C18_DescendingIsReverseOfAscending ==
    \E m \in {MatchingRecords} :
    \E asc \in {Sorted(m, [columnAccessor |-> sortStatus.columnAccessor,
                            direction |-> "asc"])} :
    \E desc \in {Sorted(m, [columnAccessor |-> sortStatus.columnAccessor,
                             direction |-> "desc"])} :
        ReverseOfAscending(m, asc, desc, sortStatus, records, page, pageSize)

\* a page sorted descending shows two records with equal keys, the one that
\* is later in the data first
C18_Witness ==
    /\ sortStatus.direction = "desc"
    /\ \E i, j \in DOMAIN records :
           /\ i < j
           /\ KeyEqual(sortStatus.columnAccessor, records[i], records[j])
           /\ PlaceIn(data, records[i]) > PlaceIn(data, records[j])

\* C12: the query the filter reads changes only when the debounce timeout
\* fires, not on a keystroke, and then to the value the input holds; while no
\* timeout is pending it equals the input, and a pending timeout leads to
\* that.
C12_QueryAppliedAfterQuietPeriod ==
    /\ [][debouncedQuery' # debouncedQuery
            => /\ debounceTimer /\ ~debounceTimer'
               /\ query' = query
               /\ debouncedQuery' = query]_vars
    /\ [](~debounceTimer => debouncedQuery = query)
    /\ (debounceTimer ~> (~debounceTimer /\ debouncedQuery = query))

\* one query is applied while another, typed since, waits for its timeout
C12_Witness ==
    /\ debouncedQuery = <<" ", "A">>
    /\ query = <<"l", "a", " ">>
    /\ debounceTimer

\* the page for the state the user sees in the controls: the input text as
\* the query
ExpectedPageForInput ==
    ExpectedPageOf(data, page, pageSize, sortStatus, query, selectedStatuses)

\* C13: whenever no debounce timeout is pending the displayed records are the
\* filter/sort/paginate result for the current record set, input text,
\* statuses, sort, page and page size, and a pending timeout leads to such a
\* state.
C13_DisplayedPageIsLatestResult ==
    /\ [](~debounceTimer => records = ExpectedPageForInput)
    /\ (debounceTimer ~> (~debounceTimer /\ records = ExpectedPageForInput))

\* a typed query has been applied to a record set delivered after mount, with
\* the sort and the page size changed
C13_Witness ==
    /\ ~debounceTimer
    /\ query = <<" ", "A">>
    /\ sortStatus = [columnAccessor |-> "propertiesCount", direction |-> "desc"]
    /\ pageSize = PAGE_SIZES[2]
    /\ Len(data) > MaxRecords
    /\ records # <<>>
    /\ Len(records) < Len(data)

(***************************************************************************)
(* Claims about EditProductDrawer, under SpecDrawer.                       *)
(***************************************************************************)
\* the current user created the product the drawer holds
UserCreatedProduct ==
    product # 0 /\ user # NoUser /\ user = Products[product].createdById
\* the current user holds the edit permission
UserHoldsEditPermission ==
    ~permissions.isNull /\ EditPermission \in permissions.list

IssuesRequest(m) == inflight'[m] > inflight[m]
Occurrences(called, name) == Cardinality({i \in DOMAIN called : called[i] = name})
IsNotification(e) ==
    e \in {"notify:green", "notify:red:server", "notify:red:generic", "notify:red:exception"}
IsErrorNotification(e) == IsNotification(e) /\ e # "notify:green"
\* non-2xx response or transport error
IsFailure(resp) == resp.settled = "rejected" \/ ~resp.ok

\* C1: a PUT is issued only if the current user created the product and holds
\* the edit permission, and a DELETE only if the current user created the
\* product; a submit or delete click that is denied issues no request.
C1_RequestsOnlyWhenAuthorized ==
    [][/\ IssuesRequest("PUT") => UserCreatedProduct /\ UserHoldsEditPermission
       /\ IssuesRequest("DELETE") => UserCreatedProduct
       /\ (Submit /\ ~(UserCreatedProduct /\ UserHoldsEditPermission))
              => UNCHANGED inflight
       /\ ((\E answer \in BOOLEAN : Delete(answer)) /\ ~UserCreatedProduct)
              => UNCHANGED inflight]_vars

\* a PUT has just been issued while a DELETE is under way
C1_Witness ==
    /\ effects = <<"fetch:PUT">>
    /\ inflight["DELETE"] > 0
    /\ UserCreatedProduct /\ UserHoldsEditPermission

\* C2: an authorized submit and a confirmed delete issue exactly one request
\* each, and when the request is answered 2xx the success notification is
\* shown, then the close handler is called exactly once and the refresh
\* callback exactly once (each when the caller supplied it), and no request
\* is issued again.
C2_OneCallThenCloseAndRefreshOnce ==
    [][/\ (Submit /\ ~HasErrors(form) /\ UserCreatedProduct /\ UserHoldsEditPermission)
              => /\ effects' = <<"fetch:PUT">>
                 /\ inflight' = [inflight EXCEPT !["PUT"] = @ + 1]
       /\ (Delete(TRUE) /\ UserCreatedProduct)
              => /\ effects' = <<"fetch:DELETE">>
                 /\ inflight' = [inflight EXCEPT !["DELETE"] = @ + 1]
       /\ \A resp \in Responses :
              (resp.settled = "resolved" /\ resp.ok
                   /\ (PutResponse(resp) \/ DeleteResponse(resp)))
              => /\ effects' = <<"notify:green">>
                        \o (IF hasOnClose THEN <<"onClose">> ELSE <<>>)
                        \o (IF hasOnUpdated THEN <<"onProductUpdated">> ELSE <<>>)
                 /\ ~IssuesRequest("PUT") /\ ~IssuesRequest("DELETE")]_vars

\* C3: when the answer to an update or delete is non-2xx or the request fails
\* in transport, one error notification is shown, neither the close handler
\* nor the refresh callback is called, the drawer stays as open as it was, the
\* form keeps its values, and loading is false.
C3_FailureKeepsEditorAndForm ==
    [][\A resp \in Responses :
           (IsFailure(resp) /\ (PutResponse(resp) \/ DeleteResponse(resp)))
           => /\ Len(effects') = 1 /\ IsErrorNotification(effects'[1])
              /\ Occurrences(effects', "onClose") = 0
              /\ Occurrences(effects', "onProductUpdated") = 0
              /\ opened' = opened
              /\ form' = form
              /\ loading' = FALSE]_vars

\* the server's error message has just been shown; the drawer is open, the
\* form holds what the user entered in place of the product's values
C3_Witness ==
    /\ effects = <<"notify:red:server">>
    /\ opened
    /\ product # 0
    /\ form # ProductValues(Products[product])
    /\ ~loading

\* C4: a DELETE is issued only by a delete click whose confirmation the user
\* accepted; a click whose confirmation is declined issues no request, shows
\* no notification and leaves loading, the form and the open state unchanged.
C4_DeleteOnlyAfterConfirmation ==
    [][/\ IssuesRequest("DELETE") => Delete(TRUE)
       /\ Delete(FALSE) => /\ UNCHANGED <<inflight, loading, form, opened>>
                           /\ effects' = <<>>]_vars

\* a DELETE has just been issued
C4_Witness == effects = <<"fetch:DELETE">> /\ inflight["DELETE"] > 0 /\ loading

\* C5: the submit control is enabled only if the current user created the
\* product and holds the edit permission.
C5_SubmitEnabledOnlyWithPermission ==
    (opened /\ ~SubmitDisabled) => (UserCreatedProduct /\ UserHoldsEditPermission)

\* C14: while an update or delete request is outstanding the submit and the
\* delete control are disabled, and at most one such request is outstanding.
C14_OneRequestAtATime ==
    /\ InFlightCount <= 1
    /\ InFlightCount > 0 => (SubmitDisabled /\ DeleteDisabled)

\* a category response that leaves the options as they were by the contract of
\* the endpoint: rejected, unparsable, not succeeded, or without data
IsFailedCategoryFetch(resp) ==
    resp.settled # "resolved" \/ ~resp.succeeded \/ ~resp.hasData

\* C15: when a category fetch fails, afterwards the option list is empty and
\* categoriesLoading is false, nothing is shown to the user, and the form, the
\* open state and the other controls are as they were.
C15_FailedFetchLeavesSelectorEmpty ==
    [][\A resp \in CategoryResponses :
           (IsFailedCategoryFetch(resp) /\ CategoriesResponse(resp))
           => /\ categories' = <<>>
              /\ categoriesLoading' = FALSE
              /\ effects' = <<>>
              /\ UNCHANGED <<form, opened, isCreator, loading>>]_vars

\* C20: a category request is issued only by a step that leaves the drawer
\* open, and the category Select is disabled in every state in which a
\* category request awaits its response.
C20_SelectorDisabledWhileFetching ==
    /\ [][categoryFetches' > categoryFetches => opened']_vars
    /\ [](categoryFetches > 0 => CategoryDisabled)

(***************************************************************************)
(* Claims about the form of EditProductDrawer, under SpecForm.             *)
(***************************************************************************)
RequiredFields == {"title", "description", "price", "quantityInStock", "categoryId"}
\* null, undefined, or a string of nothing but blanks
IsBlank(x) ==
    \/ x.t \in {"null", "undefined"}
    \/ x.t = "string" /\ \A i \in DOMAIN x.v : x.v[i] = " "

\* C16: a PUT is issued only from a form in which none of the five required
\* fields is empty; a submit of a form with an empty required field issues no
\* request, and the submit handler does not run (loading stays as it was).
C16_ValidationGatesSubmit ==
    [][/\ IssuesRequest("PUT") => \A f \in RequiredFields : ~IsBlank(form[f])
       /\ (Submit /\ \E f \in RequiredFields : IsBlank(form[f]))
              => /\ effects' = <<>>
                 /\ UNCHANGED <<inflight, loading>>]_vars

\* the product without description and category has been submitted, after the
\* user filled both in
C16_Witness ==
    /\ product = 2
    /\ effects = <<"fetch:PUT">>
    /\ form.description = Str(<<"D">>)
    /\ form.categoryId = Str(<<"c">>)

\* C21: whenever the editor is opened for a product, the form holds that
\* product's field values, missing ones defaulted: edits left from an earlier
\* session that was closed without a successful submit are not shown, for the
\* same product or for another one.
C21_OpenedEditorShowsProductValues ==
    [][(~opened /\ opened' /\ product' # 0)
          => form' = ProductValues(Products[product'])]_vars

(***************************************************************************)
(* Claims about BuscarDeudaButton, under SpecRow.                          *)
(***************************************************************************)
Phase(b) == IF b.done THEN "done" ELSE IF b.running THEN "running" ELSE "idle"
ForwardTransitions ==
    { <<"idle", "idle">>, <<"idle", "running">>, <<"running", "running">>,
      <<"running", "done">>, <<"done", "done">> }

\* C10: the search action of a row that is on the page before and after a
\* step moves only idle -> running -> done: it never goes from running or done
\* back to idle nor from done back to running, and its progress is never reset
\* once it has started.
C10_RowMovesOnlyForward ==
    [][\A id \in RowIds :
           (btn[id].mounted /\ btn'[id].mounted)
           => /\ <<Phase(btn[id]), Phase(btn'[id])>> \in ForwardTransitions
              /\ Phase(btn[id]) # "idle" => btn'[id].progress >= btn[id].progress]_vars

\* C11: once the search action of a row has completed, the row is marked done
\* whenever it is on the page from then on, whatever page, page-size or other
\* changes hid it and showed it again in between.
C11_DoneStaysDone ==
    \A id \in RowIds : [](btn[id].done => [](btn[id].mounted => btn[id].done))

\* C17: when a row leaves the page while its search action is running, the
\* cleanup cancels its progress timer: a row that is not on the page has no
\* timer scheduled, no step ticks it or changes its progress, running or done
\* state until it is shown again, and a row that has reached done has no timer
\* scheduled either.
C17_TimerCancelledOnTeardown ==
    /\ [](\A id \in RowIds :
              btn[id].interval => btn[id].mounted /\ btn[id].running /\ ~btn[id].done)
    /\ [][\A id \in RowIds :
              ~btn[id].mounted
              => \/ btn'[id] = btn[id]
                 \/ btn'[id] = MountButton]_vars

\* a row was taken off the page while its timer was scheduled, and another
\* row has run to done
C17_Witness ==
    \E id, other \in RowIds :
        /\ ~btn[id].mounted /\ btn[id].cleared /\ ~btn[id].interval
        /\ btn[other].mounted /\ btn[other].done /\ ~btn[other].interval

(***************************************************************************)
(* Claims about the paginate step, under SpecPaginate.                     *)
(***************************************************************************)
\* page is below 1, or past the last page of the filtered records
InvalidPageIndex ==
    \/ page < 1
    \/ (page - 1) * pageSize >= Len(MatchingRecords)

C22_ProgressInvariants ==
    /\ [](\A id \in RowIds :
              btn[id].mounted
              => /\ btn[id].progress \in 0..PROGRESS_END
                 /\ btn[id].progress % 2 = 0
                 /\ btn[id].done => btn[id].progress = PROGRESS_END
                 /\ ~(btn[id].running /\ btn[id].done))
    /\ [][\A id \in RowIds :
              (btn[id].mounted /\ btn[id].running /\ btn'[id].mounted)
              => btn'[id].progress >= btn[id].progress]_vars

====
